---- MODULE Spec2Model ----
\* Welch / cross-spectral-density estimator (src/welch/welch.py), modelled for
\* one-dimensional signals along axis = -1.  The model tracks array lengths,
\* buffer identity, sample values of the (extended / padded) signal, segment
\* views (shape and strides), per-bin multipliers and segment times.  The
\* floating-point values of the window and of the Fourier transform are not
\* represented; quantities the code computes in floating point that are exact
\* rationals (times, the median bias) are modelled as reduced fractions.
EXTENDS Integers, Sequences, FiniteSets, TLC

VARIABLES pc, fn, a, x, y, fr, err, warned, out

vars == <<pc, fn, a, x, y, fr, err, warned, out>>

\* ---------------------------------------------------------------- bounds
\* Longest caller-supplied signal handed to welch / csd / _spectral_helper.
MaxN == 5
\* Longest signal handed directly to one of the boundary-extension functions.
MaxExtLen == 3
\* Largest segment count handed directly to _median_bias.
MaxBiasN == 7

\* ------------------------------------------------------- python helpers
\* An optional argument: {} is None, {v} is the value v.
None == {}
Some(v) == {v}
Val(o) == CHOOSE v \in o : TRUE

Max(p, q) == IF p >= q THEN p ELSE q
Min(p, q) == IF p <= q THEN p ELSE q

RECURSIVE GCD(_, _)
GCD(p, q) == IF q = 0 THEN (IF p < 0 THEN -p ELSE p) ELSE GCD(q, p % (IF q < 0 THEN -q ELSE q))

\* Exact rationals <<numerator, denominator>>, denominator > 0, reduced.
Rat(n, d) ==
    LET s == IF d < 0 THEN -1 ELSE 1
        g == GCD(n, d)
    IN  <<(s * n) \div g, (s * d) \div g>>
RatAdd(p, q) == Rat(p[1] * q[2] + q[1] * p[2], p[2] * q[2])
RatSub(p, q) == Rat(p[1] * q[2] - q[1] * p[2], p[2] * q[2])
RatDiv(p, q) == Rat(p[1] * q[2], p[2] * q[1])

RECURSIVE RatSum(_)
RatSum(s) == IF s = <<>> THEN <<0, 1>> ELSE RatAdd(s[1], RatSum(Tail(s)))

\* The indices selected by the Python slice start:stop:step on a sequence of
\* length len (0-based), with start and stop optional and negative values
\* counted from the end, as used by x[tuple(a_slice)].
SliceIndices(len, start, stop, step) ==
    LET lower == IF step > 0 THEN 0 ELSE -1
        upper == IF step > 0 THEN len ELSE len - 1
        clip(v) == IF v < 0 THEN Max(v + len, lower) ELSE Min(v, upper)
        s == IF start = None THEN (IF step < 0 THEN upper ELSE lower) ELSE clip(Val(start))
        e == IF stop = None THEN (IF step < 0 THEN lower ELSE upper) ELSE clip(Val(stop))
        cnt == IF step > 0
               THEN (IF e > s THEN (e - s + step - 1) \div step ELSE 0)
               ELSE (IF s > e THEN (s - e - step - 1) \div (-step) ELSE 0)
    IN  [k \in 1..cnt |-> s + (k - 1) * step]

\* axis_slice(a, start, stop, step): the selected samples, a view of arr.
axis_slice(arr, start, stop, step) ==
    LET idx == SliceIndices(Len(arr), start, stop, IF step = None THEN 1 ELSE Val(step))
    IN  [k \in 1..Len(idx) |-> arr[idx[k] + 1]]

\* An array is [buf, data, dtype]: the buffer that holds its samples, the
\* samples along the last axis, and its element type.
Array(buf, data, dtype) == [buf |-> buf, data |-> data, dtype |-> dtype]

RECURSIVE Flatten(_)
Flatten(parts) == IF parts = <<>> THEN <<>> ELSE parts[1] \o Flatten(Tail(parts))

\* np.concatenate always allocates a new buffer.
np_concatenate(parts, dtype) == Array("concatenate", Flatten(parts), dtype)

\* np.zeros(shape): shape[-1] zeros.
np_zeros(n) == [k \in 1..n |-> 0]

\* np.asarray returns an ndarray argument itself and copies anything else.
np_asarray(arr, kind) ==
    IF kind = "ndarray" THEN arr ELSE Array("asarray", arr.data, arr.dtype)

\* A function's outcome: err = "" and the value, or the exception raised.
Ok(v) == [err |-> "", val |-> v]
Raise(e) == [err |-> e, val |-> <<>>]

\* ------------------------------------------------- boundary extensions
\* even_ext whose length check admits n = x.shape[axis].
even_ext_loose(arr, n) ==
    IF n < 1 THEN Ok(arr)
    ELSE IF n > Len(arr.data) THEN Raise("ValueError")
    ELSE LET left_ext == axis_slice(arr.data, Some(n), Some(0), Some(-1))
             right_ext == axis_slice(arr.data, Some(-2), Some(-(n + 2)), Some(-1))
         IN  Ok(np_concatenate(<<left_ext, arr.data, right_ext>>, arr.dtype))

even_ext(arr, n) ==
    IF n < 1 THEN Ok(arr)
    ELSE IF n > Len(arr.data) - 1 THEN Raise("ValueError")
    ELSE LET left_ext == axis_slice(arr.data, Some(n), Some(0), Some(-1))
             right_ext == axis_slice(arr.data, Some(-2), Some(-(n + 2)), Some(-1))
         IN  Ok(np_concatenate(<<left_ext, arr.data, right_ext>>, arr.dtype))

odd_ext(arr, n) ==
    IF n < 1 THEN Ok(arr)
    ELSE IF n > Len(arr.data) - 1 THEN Raise("ValueError")
    ELSE LET left_end == axis_slice(arr.data, Some(0), Some(1), None)
             left_ext == axis_slice(arr.data, Some(n), Some(0), Some(-1))
             right_end == axis_slice(arr.data, Some(-1), None, None)
             right_ext == axis_slice(arr.data, Some(-2), Some(-(n + 2)), Some(-1))
         IN  Ok(np_concatenate(
                 <<[k \in 1..Len(left_ext) |-> 2 * left_end[1] - left_ext[k]],
                   arr.data,
                   [k \in 1..Len(right_ext) |-> 2 * right_end[1] - right_ext[k]]>>,
                 arr.dtype))

const_ext(arr, n) ==
    IF n < 1 THEN Ok(arr)
    ELSE LET left_end == axis_slice(arr.data, Some(0), Some(1), None)
             ones == [k \in 1..n |-> 1]
             left_ext == [k \in 1..n |-> ones[k] * left_end[1]]
             right_end == axis_slice(arr.data, Some(-1), None, None)
             right_ext == [k \in 1..n |-> ones[k] * right_end[1]]
         IN  Ok(np_concatenate(<<left_ext, arr.data, right_ext>>, arr.dtype))

zero_ext(arr, n) ==
    IF n < 1 THEN Ok(arr)
    ELSE LET zeros == np_zeros(n)
         IN  Ok(np_concatenate(<<zeros, arr.data, zeros>>, arr.dtype))

\* --------------------------------------------------------- median bias
\* np.arange(1., stop): 1, 2, ..., stop - 1.
arange1(stop) == [k \in 1..Max(stop - 1, 0) |-> k]

\* _median_bias with the range stopping one term early.
_median_bias_short(n) ==
    LET ks == arange1((n - 1) \div 2)
        ii_2 == [k \in 1..Len(ks) |-> 2 * ks[k]]
    IN  RatAdd(<<1, 1>>,
               RatSum([k \in 1..Len(ii_2) |->
                         RatSub(Rat(1, ii_2[k] + 1), Rat(1, ii_2[k]))]))

_median_bias(n) ==
    LET ks == arange1(((n - 1) \div 2) + 1)
        ii_2 == [k \in 1..Len(ks) |-> 2 * ks[k]]
    IN  RatAdd(<<1, 1>>,
               RatSum([k \in 1..Len(ii_2) |->
                         RatSub(Rat(1, ii_2[k] + 1), Rat(1, ii_2[k]))]))

\* ------------------------------------------------------------- windows
\* The names bound at module level: the import and the definitions of the file.
module_globals ==
    {"np", "_extend", "_len_guards", "_truncate", "general_cosine",
     "general_hamming", "hann", "_win_equiv_raw", "_win_equiv", "_needs_param",
     "get_window", "_triage_segments", "_median_bias", "welch", "csd",
     "even_ext", "odd_ext", "axis_slice", "axis_reverse", "const_ext",
     "zero_ext", "_spectral_helper", "_fft_helper", "signaltools_detrend",
     "sp_fft_fftfreq", "sp_fft_rfftfreq", "sp_fft_rfft", "sp_fft_fft"}

\* Evaluating the global name `name`: "" when it is bound, NameError otherwise.
global_lookup(name) == IF name \in module_globals THEN "" ELSE "NameError"

\* warnings.warn(...): the name `warnings` is looked up first.
warnings_warn == global_lookup("warnings")

_win_equiv == {"hanning", "hann", "han"}
_needs_param == {}

\* Length of general_cosine(M, a, sym): _len_guards, _extend, _truncate.
general_cosine(M, sym) ==
    IF M <= 1 THEN M
    ELSE LET M1 == IF ~sym THEN M + 1 ELSE M
             needs_trunc == ~sym
         IN  IF needs_trunc THEN M1 - 1 ELSE M1

\* get_window(window, Nx) for a string window: the window's length.
get_window(window, Nx) ==
    IF window.name \in _needs_param THEN Raise("ValueError")
    ELSE IF window.name \notin _win_equiv THEN Raise("ValueError")
    ELSE Ok(general_cosine(Nx, FALSE))

DefaultNperseg == 256

\* _triage_segments: the window (its length) and nperseg.
_triage_segments(window, nperseg, input_length) ==
    IF window.kind = "str"
    THEN LET n1 == IF nperseg = None THEN DefaultNperseg ELSE Val(nperseg)
             clipped == n1 > input_length
             n2 == IF clipped THEN input_length ELSE n1
             w == get_window(window, n2)
         IN  IF clipped /\ warnings_warn # "" THEN Raise(warnings_warn)
             ELSE IF w.err # "" THEN Raise(w.err)
             ELSE Ok([win |-> w.val, nperseg |-> n2, warned |-> clipped])
    ELSE IF window.ndim # 1 THEN Raise("ValueError")
    ELSE IF input_length < window.len THEN Raise("ValueError")
    ELSE IF nperseg = None
         THEN Ok([win |-> window.len, nperseg |-> window.len, warned |-> FALSE])
    ELSE IF Val(nperseg) # window.len THEN Raise("ValueError")
    ELSE Ok([win |-> window.len, nperseg |-> Val(nperseg), warned |-> FALSE])

\* ------------------------------------------------------ spectral engine
boundary_funcs == {"even", "odd", "constant", "zeros", "None"}

\* boundary_funcs[boundary](x, n, axis=-1)
ext_func(boundary, arr, n) ==
    CASE boundary = "even" -> even_ext(arr, n)
      [] boundary = "odd" -> odd_ext(arr, n)
      [] boundary = "constant" -> const_ext(arr, n)
      [] boundary = "zeros" -> zero_ext(arr, n)

\* Argument checks, conversion to arrays, the empty-input return and the
\* zero-padding of the shorter of x and y (up to the nperseg check).
spectral_entry(args, xin, yin) ==
    LET same_data == args.same_data
        x1 == np_asarray(xin, args.x_kind)
        y1 == IF same_data THEN x1 ELSE np_asarray(yin, args.y_kind)
        lx == Len(x1.data)
        ly == Len(y1.data)
        x2 == IF ~same_data /\ lx < ly
              THEN np_concatenate(<<x1.data, np_zeros(ly - lx)>>, x1.dtype) ELSE x1
        y2 == IF same_data THEN x2
              ELSE IF lx > ly
              THEN np_concatenate(<<y1.data, np_zeros(lx - ly)>>, y1.dtype) ELSE y1
        res(e, empty, xx, yy) == [err |-> e, empty |-> empty, x |-> xx, y |-> yy]
    IN  IF args.mode \notin {"psd", "stft"} THEN res("ValueError", FALSE, xin, yin)
        ELSE IF args.boundary \notin boundary_funcs THEN res("ValueError", FALSE, xin, yin)
        ELSE IF ~same_data /\ args.mode # "psd" THEN res("ValueError", FALSE, xin, yin)
        ELSE IF same_data /\ lx = 0 THEN res("", TRUE, x1, y1)
        ELSE IF ~same_data /\ (lx = 0 \/ ly = 0) THEN res("", TRUE, x1, y1)
        ELSE IF args.nperseg # None /\ Val(args.nperseg) < 1 THEN res("ValueError", FALSE, x2, y2)
        ELSE res("", FALSE, x2, y2)

\* The window, nperseg, nfft, noverlap and nstep.
spectral_params(args, input_length) ==
    LET t == _triage_segments(args.window, args.nperseg, input_length)
        nperseg == t.val.nperseg
        nfft == IF args.nfft = None THEN nperseg ELSE Val(args.nfft)
        noverlap == IF args.noverlap = None THEN nperseg \div 2 ELSE Val(args.noverlap)
    IN  IF t.err # "" THEN Raise(t.err)
        ELSE IF args.nfft # None /\ Val(args.nfft) < nperseg THEN Raise("ValueError")
        ELSE IF noverlap >= nperseg THEN Raise("ValueError")
        ELSE Ok([win |-> t.val.win, nperseg |-> nperseg, nfft |-> nfft,
                 noverlap |-> noverlap, nstep |-> nperseg - noverlap,
                 warned |-> t.val.warned])

\* Boundary extension of x (and of y when it is other data).
spectral_extend(args, xin, yin, nperseg) ==
    IF args.boundary = "None" THEN [err |-> "", x |-> xin, y |-> yin]
    ELSE LET ex == ext_func(args.boundary, xin, nperseg \div 2)
             ey == IF args.same_data THEN ex ELSE ext_func(args.boundary, yin, nperseg \div 2)
         IN  IF ex.err # "" THEN [err |-> ex.err, x |-> xin, y |-> yin]
             ELSE IF ey.err # "" THEN [err |-> ey.err, x |-> ex.val, y |-> yin]
             ELSE [err |-> "", x |-> ex.val, y |-> ey.val]

\* pad_nadd with the remainder taken of the length itself, not of its negation.
pad_nadd_unsigned(len, nperseg, nstep) == ((len - nperseg) % nstep) % nperseg

\* Number of zeros that pad a signal of length len to whole segments.
pad_nadd(len, nperseg, nstep) == ((-(len - nperseg)) % nstep) % nperseg

\* spectral_pad that skips the concatenation when there is nothing to add.
spectral_pad_lazy(args, xin, yin, nperseg, nstep) ==
    LET nadd == pad_nadd(Len(xin.data), nperseg, nstep)
    IN  IF ~args.padded \/ nadd = 0 THEN [x |-> xin, y |-> yin, nadd |-> 0]
        ELSE LET x1 == np_concatenate(<<xin.data, np_zeros(nadd)>>, xin.dtype)
                 y1 == IF args.same_data THEN x1
                       ELSE np_concatenate(<<yin.data, np_zeros(nadd)>>, yin.dtype)
             IN  [x |-> x1, y |-> y1, nadd |-> nadd]

\* Zero-padding of x (and of y) when padded is set.
spectral_pad(args, xin, yin, nperseg, nstep) ==
    IF ~args.padded THEN [x |-> xin, y |-> yin, nadd |-> 0]
    ELSE LET nadd == pad_nadd(Len(xin.data), nperseg, nstep)
             x1 == np_concatenate(<<xin.data, np_zeros(nadd)>>, xin.dtype)
             y1 == IF args.same_data THEN x1
                   ELSE np_concatenate(<<yin.data, np_zeros(nadd)>>, yin.dtype)
         IN  [x |-> x1, y |-> y1, nadd |-> nadd]

np_iscomplexobj(arr) == arr.dtype = "complex128"

\* The scaling check and the choice between a one- and a two-sided spectrum.
spectral_sides(args, xin, yin) ==
    LET complex_in == np_iscomplexobj(xin) \/ (~args.same_data /\ np_iscomplexobj(yin))
        downgraded == args.return_onesided /\ complex_in
        sides == IF args.return_onesided /\ ~complex_in THEN "onesided" ELSE "twosided"
    IN  IF args.scaling \notin {"density", "spectrum"} THEN Raise("ValueError")
        ELSE IF downgraded /\ warnings_warn # "" THEN Raise(warnings_warn)
        ELSE Ok([sides |-> sides, warned |-> downgraded])

\* Length of sp_fft_fftfreq(nfft) or sp_fft_rfftfreq(nfft).
freqs_len(nfft, sides) == IF sides = "twosided" THEN nfft ELSE nfft \div 2 + 1

\* strided_rows with the row count taken from the samples left after a whole
\* segment, without the first segment.
strided_rows_short(len, nperseg, noverlap) == (len - nperseg) \div (nperseg - noverlap)

\* Number of rows of the strided array of segments.
strided_rows(len, nperseg, noverlap) == (len - noverlap) \div (nperseg - noverlap)

\* The array of data segments of _fft_helper: a view of arr's buffer with
\* shape (segments, samples) and strides counted in samples.
segment_view(arr, nperseg, noverlap) ==
    IF nperseg = 1 /\ noverlap = 0
    THEN [base |-> arr.buf, shape |-> <<Len(arr.data), 1>>, strides |-> <<1, 0>>]
    ELSE LET step == nperseg - noverlap
         IN  [base |-> arr.buf,
              shape |-> <<strided_rows(Len(arr.data), nperseg, noverlap), nperseg>>,
              strides |-> <<step, 1>>]

\* The samples (0-based offsets into the buffer) that row k of a view reads.
ViewOffsets(view, k) ==
    {k * view.strides[1] + j * view.strides[2] : j \in 0..(view.shape[2] - 1)}

\* signaltools_detrend(d, type=detrend): "" or the exception it raises.
detrend_func(detrend) ==
    IF detrend = "False" THEN ""
    ELSE IF detrend \notin {"linear", "l", "constant", "c"} THEN "ValueError"
    ELSE IF detrend \in {"constant", "c"} THEN ""
    ELSE global_lookup("_prod")

\* _fft_helper: the segment view and the shape of the transformed segments.
_fft_helper(arr, win, detrend, nperseg, noverlap, nfft, sides) ==
    LET view == segment_view(arr, nperseg, noverlap)
        d == detrend_func(detrend)
    IN  IF d # "" THEN Raise(d)
        ELSE Ok([view |-> view, shape |-> <<view.shape[1], freqs_len(nfft, sides)>>])

\* onesided_factor that doubles the last bin whatever the parity of nfft.
onesided_factor_all(nfft, nbins, sides, mode) ==
    LET doubled == IF sides = "onesided" /\ mode = "psd"
                   THEN SliceIndices(nbins, Some(1), None, 1)
                   ELSE <<>>
        idx == {doubled[k] : k \in 1..Len(doubled)}
    IN  [j \in 1..nbins |-> IF (j - 1) \in idx THEN 2 ELSE 1]

\* The factor each frequency bin is multiplied by after result *= scale.
onesided_factor(nfft, nbins, sides, mode) ==
    LET doubled == IF sides = "onesided" /\ mode = "psd"
                   THEN IF nfft % 2 # 0
                        THEN SliceIndices(nbins, Some(1), None, 1)
                        ELSE SliceIndices(nbins, Some(1), Some(-1), 1)
                   ELSE <<>>
        idx == {doubled[k] : k \in 1..Len(doubled)}
    IN  [j \in 1..nbins |-> IF (j - 1) \in idx THEN 2 ELSE 1]

\* Smallest integer >= the rational q.
RatCeil(q) == -((-q[1]) \div q[2])

\* np.arange(start, stop, step) for rational start and stop, integer step.
np_arange(start, stop, step) ==
    LET cnt == Max(RatCeil(RatDiv(RatSub(stop, start), <<step, 1>>)), 0)
    IN  [k \in 1..cnt |-> RatAdd(start, <<(k - 1) * step, 1>>)]

\* segment_times with the stop of the range one short.
segment_times_short(len, nperseg, noverlap, fs, boundary) ==
    LET t0 == np_arange(Rat(nperseg, 2), RatSub(<<len, 1>>, Rat(nperseg, 2)),
                        nperseg - noverlap)
        t1 == [k \in 1..Len(t0) |-> RatDiv(t0[k], <<fs, 1>>)]
    IN  IF boundary # "None"
        THEN [k \in 1..Len(t1) |-> RatSub(t1[k], RatDiv(Rat(nperseg, 2), <<fs, 1>>))]
        ELSE t1

\* The segment times.
segment_times(len, nperseg, noverlap, fs, boundary) ==
    LET t0 == np_arange(Rat(nperseg, 2), RatAdd(RatSub(<<len, 1>>, Rat(nperseg, 2)), <<1, 1>>),
                        nperseg - noverlap)
        t1 == [k \in 1..Len(t0) |-> RatDiv(t0[k], <<fs, 1>>)]
    IN  IF boundary # "None"
        THEN [k \in 1..Len(t1) |-> RatSub(t1[k], RatDiv(Rat(nperseg, 2), <<fs, 1>>))]
        ELSE t1

\* Pxy.shape after the average over segments in csd, how it was obtained and
\* the bias the median was divided by.
csd_average(shape, average) ==
    LET nd == Len(shape)
        size == IF nd = 1 THEN shape[1] ELSE shape[1] * shape[2]
        reduced == SubSeq(shape, 1, nd - 1)
    IN  IF nd >= 2 /\ size > 0
        THEN IF shape[nd] > 1
             THEN IF average = "median"
                  THEN Ok([how |-> "median", bias |-> Some(_median_bias(shape[nd])),
                           shape |-> reduced])
                  ELSE IF average = "mean"
                  THEN Ok([how |-> "mean", bias |-> None, shape |-> reduced])
                  ELSE Raise("ValueError")
             ELSE Ok([how |-> "reshape", bias |-> None, shape |-> reduced])
        ELSE Ok([how |-> "unchanged", bias |-> None, shape |-> shape])

\* ------------------------------------------------------------ the calls
\* The caller's signals: distinct sample values, so that a sample of the
\* working signal identifies where it came from.
CallerX(n, dtype) == Array("caller_x", [i \in 1..n |-> i], dtype)
CallerY(n, dtype) == Array("caller_y", [i \in 1..n |-> 10 + i], dtype)

\* Default arguments of _spectral_helper and csd (a one-sample signal).
defaults ==
    [x_len |-> 1, x_kind |-> "ndarray", x_dtype |-> "float64",
     same_data |-> TRUE, y_len |-> 1, y_kind |-> "ndarray", y_dtype |-> "float64",
     fs |-> 1, window |-> [kind |-> "str", name |-> "hann"],
     nperseg |-> None, noverlap |-> None, nfft |-> None,
     detrend |-> "constant", return_onesided |-> TRUE, scaling |-> "density",
     mode |-> "psd", boundary |-> "None", padded |-> FALSE, average |-> "mean"]

Opt(S) == {None} \cup {Some(v) : v \in S}
Kinds == {"ndarray", "list"}
Dtypes == {"float64", "complex128"}
Windows ==
    {[kind |-> "str", name |-> nm] : nm \in {"hann", "hanning", "boxcar"}}
    \cup {[kind |-> "array", ndim |-> 1, len |-> w] : w \in 1..(MaxN + 1)}
    \cup {[kind |-> "array", ndim |-> 2, len |-> 2]}

\* Segmentation: signal length, segment length, overlap, boundary, padding.
SegArgs ==
    {[defaults EXCEPT !.x_len = n, !.y_len = n, !.nperseg = Some(ps), !.noverlap = no,
                      !.boundary = b, !.padded = pd, !.fs = f] :
        n \in 1..MaxN, ps \in 1..(MaxN + 1), no \in Opt((-1)..MaxN),
        b \in boundary_funcs, pd \in BOOLEAN, f \in {1, 2}}

\* Windows by name and as arrays, with and without nperseg.
WinArgs ==
    {[defaults EXCEPT !.x_len = n, !.y_len = n, !.window = w, !.nperseg = ps] :
        n \in 0..MaxN, w \in Windows, ps \in Opt(0..MaxN)}

\* One or two signals, given as arrays or as lists, of equal or different length.
CrossArgs ==
    {[defaults EXCEPT !.x_len = n, !.y_len = IF sd THEN n ELSE m, !.same_data = sd,
                      !.x_kind = xk, !.y_kind = IF sd THEN xk ELSE yk,
                      !.nperseg = Some(ps), !.noverlap = no, !.boundary = b,
                      !.padded = pd] :
        n \in 0..MaxN, m \in 0..MaxN, sd \in BOOLEAN, xk \in Kinds, yk \in Kinds,
        ps \in {1, 2}, no \in {None, Some(0)}, b \in {"None", "even"}, pd \in BOOLEAN}

\* Transform length, mode, sidedness and element types.
SidesArgs ==
    {[defaults EXCEPT !.x_len = MaxN, !.y_len = MaxN, !.nperseg = Some(ps), !.nfft = nf,
                      !.mode = md, !.return_onesided = os, !.x_dtype = xd,
                      !.same_data = sd, !.y_dtype = IF sd THEN xd ELSE yd] :
        ps \in {1, 2, 3}, nf \in Opt(1..(MaxN + 2)), md \in {"psd", "stft", "spectrogram"},
        os \in BOOLEAN, xd \in Dtypes, sd \in BOOLEAN, yd \in Dtypes}

\* Scaling, detrending and boundary names.
MiscArgs ==
    {[defaults EXCEPT !.x_len = MaxN, !.y_len = MaxN, !.nperseg = Some(2), !.scaling = sc,
                      !.detrend = dt, !.boundary = b, !.mode = md] :
        sc \in {"density", "spectrum", "power"},
        dt \in {"constant", "False", "linear", "quadratic"},
        b \in {"None", "even", "reflect"}, md \in {"psd", "stft"}}

HelperArgs == SegArgs \cup WinArgs \cup CrossArgs \cup SidesArgs \cup MiscArgs

\* Arguments of csd and welch: boundary and padded keep their defaults.
CsdArgs ==
    {[defaults EXCEPT !.x_len = n, !.y_len = n, !.same_data = sd, !.nperseg = ps,
                      !.noverlap = no, !.average = av, !.x_dtype = xd, !.y_dtype = xd] :
        n \in 0..MaxN, sd \in BOOLEAN, ps \in Opt(1..MaxN), no \in {None, Some(0)},
        av \in {"mean", "median", "max"}, xd \in Dtypes}

WelchArgs == {c \in CsdArgs : c.same_data}

\* Signals and extension lengths handed directly to the extension functions.
ExtSignals == UNION {[1..len -> 1..3] : len \in 1..MaxExtLen}
ExtLengths == (-1)..(MaxExtLen + 1)

\* No segment view yet.
NoView == [base |-> "", shape |-> <<0, 0>>, strides |-> <<0, 0>>]

\* Locals of _spectral_helper before they are assigned.
fr0 ==
    [win |-> 0, nperseg |-> 0, nfft |-> 0, noverlap |-> 0, nstep |-> 0, nadd |-> 0,
     sides |-> "", freqs |-> 0, view |-> NoView, view_y |-> NoView, shape |-> <<>>,
     factor |-> <<>>, time |-> <<>>]

NoArray == Array("", <<>>, "")

Init ==
    /\ pc = "idle"
    /\ fn = ""
    /\ a = <<>>
    /\ x = NoArray
    /\ y = NoArray
    /\ fr = fr0
    /\ err = ""
    /\ warned = FALSE
    /\ out = <<>>

\* A call of f with arguments args on the caller's signals.
Enter(f, args) ==
    /\ pc = "idle"
    /\ pc' = "entry"
    /\ fn' = f
    /\ a' = args
    /\ x' = CallerX(args.x_len, args.x_dtype)
    /\ y' = IF args.same_data THEN CallerX(args.x_len, args.x_dtype)
            ELSE CallerY(args.y_len, args.y_dtype)
    /\ UNCHANGED <<fr, err, warned, out>>

Call_spectral_helper ==
    /\ pc = "idle"
    /\ \E args \in HelperArgs : Enter("_spectral_helper", args)

Call_csd ==
    /\ pc = "idle"
    /\ \E args \in CsdArgs : Enter("csd", args)

Call_welch ==
    /\ pc = "idle"
    /\ \E args \in WelchArgs : Enter("welch", args)

\* What a step of the engine leaves: the exception, or the next position.
Step(e, next) ==
    /\ pc' = IF e # "" THEN "raised" ELSE next
    /\ err' = e

\* Where _spectral_helper returns to.
Returned == IF fn = "_spectral_helper" THEN "done" ELSE "average"

Entry ==
    /\ pc = "entry"
    /\ LET r == spectral_entry(a, x, y)
       IN  /\ Step(r.err, IF r.empty THEN Returned ELSE "params")
           /\ x' = r.x
           /\ y' = r.y
           /\ fr' = IF r.err = "" /\ r.empty
                    THEN [fr EXCEPT !.shape = <<0>>] ELSE fr
           /\ out' = IF r.err = "" /\ r.empty /\ fn = "_spectral_helper"
                     THEN [freqs |-> 0, time |-> <<>>, shape |-> <<0>>] ELSE out
    /\ UNCHANGED <<fn, a, warned>>

Params ==
    /\ pc = "params"
    /\ LET r == spectral_params(a, Len(x.data))
       IN  /\ Step(r.err, "extend")
           /\ fr' = IF r.err # "" THEN fr
                    ELSE [fr EXCEPT !.win = r.val.win, !.nperseg = r.val.nperseg,
                                    !.nfft = r.val.nfft, !.noverlap = r.val.noverlap,
                                    !.nstep = r.val.nstep]
           /\ warned' = IF r.err # "" THEN warned ELSE r.val.warned
    /\ UNCHANGED <<fn, a, x, y, out>>

Extend ==
    /\ pc = "extend"
    /\ LET r == spectral_extend(a, x, y, fr.nperseg)
       IN  /\ Step(r.err, "pad")
           /\ x' = r.x
           /\ y' = r.y
    /\ UNCHANGED <<fn, a, fr, warned, out>>

Pad ==
    /\ pc = "pad"
    /\ LET r == spectral_pad(a, x, y, fr.nperseg, fr.nstep)
       IN  /\ Step("", "sides")
           /\ x' = r.x
           /\ y' = r.y
           /\ fr' = [fr EXCEPT !.nadd = r.nadd]
    /\ UNCHANGED <<fn, a, warned, out>>

Sides ==
    /\ pc = "sides"
    /\ LET r == spectral_sides(a, x, y)
       IN  /\ Step(r.err, "fft")
           /\ fr' = IF r.err # "" THEN fr
                    ELSE [fr EXCEPT !.sides = r.val.sides,
                                    !.freqs = freqs_len(fr.nfft, r.val.sides)]
           /\ warned' = IF r.err # "" THEN warned ELSE (warned \/ r.val.warned)
    /\ UNCHANGED <<fn, a, x, y, out>>

Fft ==
    /\ pc = "fft"
    /\ LET rx == _fft_helper(x, fr.win, a.detrend, fr.nperseg, fr.noverlap, fr.nfft, fr.sides)
           ry == IF a.same_data THEN rx
                 ELSE _fft_helper(y, fr.win, a.detrend, fr.nperseg, fr.noverlap, fr.nfft,
                                  fr.sides)
           e == IF rx.err # "" THEN rx.err ELSE ry.err
       IN  /\ Step(e, "post")
           /\ fr' = IF e # "" THEN fr
                    ELSE [fr EXCEPT !.view = rx.val.view,
                                    !.view_y = IF a.same_data THEN NoView ELSE ry.val.view,
                                    !.shape = rx.val.shape]
    /\ UNCHANGED <<fn, a, x, y, warned, out>>

Post ==
    /\ pc = "post"
    /\ LET factor == onesided_factor(fr.nfft, fr.shape[2], fr.sides, a.mode)
           time == segment_times(Len(x.data), fr.nperseg, fr.noverlap, a.fs, a.boundary)
           shape == <<fr.shape[2], fr.shape[1]>>
       IN  /\ Step("", Returned)
           /\ fr' = [fr EXCEPT !.factor = factor, !.time = time, !.shape = shape]
           /\ out' = IF fn = "_spectral_helper"
                     THEN [freqs |-> fr.freqs, time |-> time, shape |-> shape] ELSE out
    /\ UNCHANGED <<fn, a, x, y, warned>>

Average ==
    /\ pc = "average"
    /\ LET r == csd_average(fr.shape, a.average)
       IN  /\ Step(r.err, "done")
           /\ out' = IF r.err # "" THEN out
                     ELSE [freqs |-> fr.freqs, shape |-> r.val.shape, how |-> r.val.how,
                           bias |-> r.val.bias]
    /\ UNCHANGED <<fn, a, x, y, fr, warned>>

\* A direct call of one of the extension functions or of _median_bias.
Direct(f, args, r) ==
    /\ pc = "idle"
    /\ fn' = f
    /\ a' = args
    /\ Step(r.err, "done")
    /\ out' = r.val
    /\ UNCHANGED <<y, fr, warned>>

Call_even_ext ==
    /\ pc = "idle"
    /\ \E s \in ExtSignals, n \in ExtLengths :
        /\ x' = Array("caller_x", s, "float64")
        /\ Direct("even_ext", [n |-> n], even_ext(x', n))

Call_odd_ext ==
    /\ pc = "idle"
    /\ \E s \in ExtSignals, n \in ExtLengths :
        /\ x' = Array("caller_x", s, "float64")
        /\ Direct("odd_ext", [n |-> n], odd_ext(x', n))

Call_const_ext ==
    /\ pc = "idle"
    /\ \E s \in ExtSignals, n \in ExtLengths :
        /\ x' = Array("caller_x", s, "float64")
        /\ Direct("const_ext", [n |-> n], const_ext(x', n))

Call_zero_ext ==
    /\ pc = "idle"
    /\ \E s \in ExtSignals, n \in ExtLengths :
        /\ x' = Array("caller_x", s, "float64")
        /\ Direct("zero_ext", [n |-> n], zero_ext(x', n))

Call_median_bias ==
    /\ pc = "idle"
    /\ \E n \in 1..MaxBiasN :
        /\ x' = x
        /\ Direct("_median_bias", [n |-> n], Ok(_median_bias(n)))

Next ==
    \/ Call_spectral_helper
    \/ Call_csd
    \/ Call_welch
    \/ Entry
    \/ Params
    \/ Extend
    \/ Pad
    \/ Sides
    \/ Fft
    \/ Post
    \/ Average
    \/ Call_even_ext
    \/ Call_odd_ext
    \/ Call_const_ext
    \/ Call_zero_ext
    \/ Call_median_bias

Spec == Init /\ [][Next]_vars

\* ----------------------------------------------------------- properties
EngineFns == {"_spectral_helper", "csd", "welch"}

\* nperseg, noverlap and nstep have been settled by the running engine call.
ParamsDone == fn \in EngineFns /\ fr.nperseg >= 1

\* The engine call has built its segment view.
Segmented == fn \in EngineFns /\ fr.view.base # ""

\* The engine call has passed the padding step.
PadDone == ParamsDone /\ pc \in {"sides", "fft", "post", "average", "done"}

\* The engine call has scaled its result and computed the times.
PostDone == fn \in EngineFns /\ fr.factor # <<>>

\* Length of the signal the engine works on, before extension and padding.
InputLength == IF a.same_data THEN a.x_len ELSE Max(a.x_len, a.y_len)

\* Samples added at each end by the boundary extension.
ExtLength == IF a.boundary # "None" THEN fr.nperseg \div 2 ELSE 0

\* C1: whenever an engine call has got past the noverlap check, and so
\* whenever it forms segments, 0 <= noverlap < nperseg and
\* step = nperseg - noverlap >= 1: a noverlap outside that range never
\* gets as far as segmentation.
C1_NoverlapInRange ==
    ParamsDone =>
        /\ 0 <= fr.noverlap
        /\ fr.noverlap < fr.nperseg
        /\ fr.nstep = fr.nperseg - fr.noverlap
        /\ fr.nstep >= 1

\* C2: without padding and with 0 <= noverlap < nperseg, the number of
\* segments is floor((N + 2*ext - noverlap) / (nperseg - noverlap)), segment
\* k reads samples k*step .. k*step + nperseg - 1 of the extended signal, all
\* inside it, and fewer than step samples are left over after the last one.
C2_SegmentCount ==
    (Segmented /\ ~a.padded /\ fr.noverlap >= 0) =>
        LET L == InputLength + 2 * ExtLength
            step == fr.nperseg - fr.noverlap
            nseg == fr.view.shape[1]
            covers(view) ==
                /\ view.shape[1] = nseg
                /\ \A k \in 0..(nseg - 1) :
                       ViewOffsets(view, k) = (k * step)..(k * step + fr.nperseg - 1)
        IN  /\ Len(x.data) = L
            /\ nseg = (L - fr.noverlap) \div step
            /\ covers(fr.view)
            /\ (~a.same_data => covers(fr.view_y) /\ Len(y.data) = L)
            /\ (nseg - 1) * step + fr.nperseg <= L
            /\ L - ((nseg - 1) * step + fr.nperseg) < step

\* C2 witness: an extended, unpadded signal cut into several overlapping
\* segments with a tail that is dropped.
C2_Witness ==
    /\ Segmented /\ pc = "done" /\ ~a.padded /\ a.boundary = "odd"
    /\ fr.noverlap >= 1 /\ fr.view.shape[1] >= 2
    /\ Len(x.data) > (fr.view.shape[1] - 1) * fr.nstep + fr.nperseg

\* C3: with padding and 0 <= noverlap < nperseg, the number nadd of zeros
\* satisfies 0 <= nadd < step and (L + nadd - nperseg) mod step = 0 for the
\* extended length L; the zeros follow the extended signal, y gets the same
\* nadd, and the segments read every sample of the padded signal.
C3_PaddedToWholeSegments ==
    (PadDone /\ a.padded /\ fr.noverlap >= 0) =>
        LET N == InputLength
            ext == ExtLength
            L == N + 2 * ext
            step == fr.nperseg - fr.noverlap
            tail(arr) ==
                /\ Len(arr.data) = L + fr.nadd
                /\ \A i \in (L + 1)..(L + fr.nadd) : arr.data[i] = 0
            all(view) ==
                UNION {ViewOffsets(view, k) : k \in 0..(view.shape[1] - 1)}
        IN  /\ 0 <= fr.nadd
            /\ fr.nadd < step
            /\ (L + fr.nadd - fr.nperseg) % step = 0
            /\ tail(x)
            /\ \A i \in 1..a.x_len : x.data[ext + i] = i
            /\ (~a.same_data =>
                    /\ tail(y)
                    /\ \A i \in 1..a.y_len : y.data[ext + i] = 10 + i)
            /\ (Segmented =>
                    /\ all(fr.view) = 0..(L + fr.nadd - 1)
                    /\ (~a.same_data => all(fr.view_y) = 0..(L + fr.nadd - 1)))

\* C3 witness: two different signals, extended and then padded with at least
\* one zero.
C3_Witness ==
    /\ Segmented /\ pc = "done" /\ a.padded /\ ~a.same_data
    /\ a.boundary = "even" /\ fr.nperseg >= 2 /\ fr.nadd >= 1

\* C10: the times array has one entry per segment, and entry k is
\* (nperseg/2 + k*step)/fs, less (nperseg/2)/fs when a boundary is given.
C10_TimesMatchSegments ==
    PostDone =>
        LET nseg == fr.shape[2]
            shift == IF a.boundary # "None" THEN Rat(fr.nperseg, 2 * a.fs) ELSE <<0, 1>>
        IN  /\ nseg = fr.view.shape[1]
            /\ Len(fr.time) = nseg
            /\ \A k \in 0..(nseg - 1) :
                   fr.time[k + 1]
                       = RatSub(Rat(fr.nperseg + 2 * k * fr.nstep, 2 * a.fs), shift)
            /\ (fn = "_spectral_helper" /\ pc = "done" =>
                    out.time = fr.time /\ out.shape = fr.shape)

\* C10 witness: an odd segment length, a boundary, padding, fs = 2 and
\* several segments.
C10_Witness ==
    /\ PostDone /\ pc = "done" /\ fn = "_spectral_helper"
    /\ fr.nperseg = 3 /\ a.boundary = "constant" /\ a.padded /\ a.fs = 2
    /\ Len(out.time) >= 3

\* The signal is not empty.
NonEmpty == a.x_len >= 1 /\ (a.same_data \/ a.y_len >= 1)

\* C4: no call of csd or welch on a non-empty signal with an average other
\* than "mean" or "median" returns an estimate.
C4_BadAverageNeverReturns ==
    (fn \in {"csd", "welch"} /\ NonEmpty /\ a.average \notin {"mean", "median"}) =>
        pc # "done"

\* The segment length asked for exceeds a signal given with a window name.
ClipCase ==
    /\ a.window.kind = "str"
    /\ (IF a.nperseg = None THEN DefaultNperseg ELSE Val(a.nperseg)) > InputLength

\* A one-sided spectrum is asked for and x or y is complex.
DowngradeCase ==
    /\ a.return_onesided
    /\ (a.x_dtype = "complex128" \/ (~a.same_data /\ a.y_dtype = "complex128"))

\* C5: an engine call in which nperseg is clipped to the input length, or a
\* one-sided request is downgraded for complex input, is never aborted by that
\* condition: if it raises at all it raises ValueError (an argument check),
\* and if it returns it has warned, with nperseg clipped and two sides.
C5_AdvisoryNeverAborts ==
    (fn \in EngineFns /\ NonEmpty /\ (ClipCase \/ DowngradeCase)) =>
        /\ (pc = "raised" => err = "ValueError")
        /\ (pc = "done" =>
                /\ warned
                /\ (ClipCase => fr.nperseg = InputLength)
                /\ (DowngradeCase => fr.sides = "twosided"))

\* 1 + the sum over odd i = 1, 3, 5, ... with i <= top of (1/(i+1) - 1/i).
RECURSIVE OddSum(_)
OddSum(top) ==
    IF top < 1 THEN <<1, 1>>
    ELSE IF top % 2 = 0 THEN OddSum(top - 1)
    ELSE RatAdd(OddSum(top - 2), RatSub(Rat(1, top + 1), Rat(1, top)))

\* 1 + the sum over even i = 2, 4, 6, ... with i <= top of (1/(i+1) - 1/i).
RECURSIVE EvenSum(_)
EvenSum(top) ==
    IF top < 2 THEN <<1, 1>>
    ELSE IF top % 2 = 1 THEN EvenSum(top - 1)
    ELSE RatAdd(EvenSum(top - 2), RatSub(Rat(1, top + 1), Rat(1, top)))

\* C6 as stated: the bias for n segments is 1 + the sum over odd
\* i = 1, 3, ... with i <= n - 2 of (1/(i+1) - 1/i), which is 1 for n = 1, 2.
C6_BiasOddTerms ==
    /\ (fn = "_median_bias" /\ pc = "done") =>
           /\ out = OddSum(a.n - 2)
           /\ (a.n \in {1, 2} => out = <<1, 1>>)
    /\ (fn \in {"csd", "welch"} /\ pc = "done" /\ out.how = "median") =>
           out.bias = Some(OddSum(fr.shape[2] - 2))

\* C6 amended: the bias for n segments is 1 + the sum over even
\* i = 2, 4, ... with i <= n - 1 of (1/(i+1) - 1/i), which is 1 for n = 1, 2.
C6_BiasEvenTerms ==
    /\ (fn = "_median_bias" /\ pc = "done") =>
           /\ out = EvenSum(a.n - 1)
           /\ (a.n \in {1, 2} => out = <<1, 1>>)
    /\ (fn \in {"csd", "welch"} /\ pc = "done" /\ out.how = "median") =>
           out.bias = Some(EvenSum(fr.shape[2] - 1))

\* C6 witness: a median over five segments divided by 47/60.
C6_Witness ==
    /\ fn \in {"csd", "welch"} /\ pc = "done" /\ out.how = "median"
    /\ fr.shape[2] = 5 /\ out.bias = Some(<<47, 60>>)

\* C7: after scaling, a one-sided PSD has nfft \div 2 + 1 bins with factor 1
\* on bin 0, 1 on the last bin when nfft is even and 2 on every other bin; in
\* STFT mode or with a two-sided spectrum every factor is 1.
C7_OnesidedFactors ==
    PostDone =>
        IF fr.sides = "onesided" /\ a.mode = "psd"
        THEN /\ Len(fr.factor) = fr.nfft \div 2 + 1
             /\ \A j \in 0..(fr.nfft \div 2) :
                    fr.factor[j + 1] =
                        IF j = 0 THEN 1
                        ELSE IF j = fr.nfft \div 2 /\ fr.nfft % 2 = 0 THEN 1
                        ELSE 2
        ELSE /\ Len(fr.factor) = (IF fr.sides = "onesided" THEN fr.nfft \div 2 + 1 ELSE fr.nfft)
             /\ \A j \in 1..Len(fr.factor) : fr.factor[j] = 1

\* C7 witness: a one-sided PSD with nfft = 6: factors 1, 2, 2, 1.
C7_Witness ==
    /\ PostDone /\ pc = "done" /\ fr.sides = "onesided" /\ a.mode = "psd"
    /\ fr.nfft = 6 /\ fr.factor = <<1, 2, 2, 1>>

\* C8 as stated: the segment views never alias a caller's array.
C8_ViewNeverAliasesCaller ==
    Segmented =>
        /\ fr.view.base \notin {"caller_x", "caller_y"}
        /\ fr.view_y.base \notin {"caller_x", "caller_y"}

\* The engine copied the signal before cutting it into segments.
CopiedX ==
    \/ a.x_kind # "ndarray"
    \/ ~a.same_data /\ a.x_len < a.y_len
    \/ a.boundary # "None" /\ fr.nperseg \div 2 >= 1
    \/ a.padded
CopiedY ==
    \/ a.y_kind # "ndarray"
    \/ a.y_len < a.x_len
    \/ a.boundary # "None" /\ fr.nperseg \div 2 >= 1
    \/ a.padded

\* C8 amended: the segment view of x aliases a buffer created inside the call
\* exactly when x was not given as an array, or was zero-padded to the length
\* of y, or was extended by at least one sample, or padded is set; otherwise
\* it aliases the caller's array.  The same holds of y in a cross-spectral call.
C8_ViewAliasesCallerUnlessCopied ==
    Segmented =>
        /\ fr.view.base = x.buf
        /\ (CopiedX => fr.view.base \in {"asarray", "concatenate"})
        /\ (~CopiedX => fr.view.base = "caller_x")
        /\ (~a.same_data =>
                /\ fr.view_y.base = y.buf
                /\ (CopiedY => fr.view_y.base \in {"asarray", "concatenate"})
                /\ (~CopiedY => fr.view_y.base = "caller_y"))

\* C8 witness: padded set but no zero to add and no boundary: the view is on
\* the copy that the padding step made.
C8_Witness ==
    /\ Segmented /\ pc = "done" /\ a.x_kind = "ndarray" /\ a.boundary = "None"
    /\ a.padded /\ fr.nadd = 0 /\ fr.view.base = "concatenate"

ExtFns == {"even_ext", "odd_ext", "const_ext", "zero_ext"}

\* The extension returned a signal of length L + 2n around the original.
Extended(L, n) ==
    /\ pc = "done"
    /\ Len(out.data) = L + 2 * n
    /\ SubSeq(out.data, n + 1, n + L) = x.data

\* C9 as stated: each of the four extensions returns the signal unchanged
\* for n < 1, fails with ValueError for n > L - 1, and otherwise returns
\* L + 2n samples whose middle L are the signal.
C9_AllModesRejectLongExtension ==
    (fn \in ExtFns /\ pc \in {"done", "raised"}) =>
        LET L == Len(x.data)
            n == a.n
        IN  /\ (n < 1 => pc = "done" /\ out = x)
            /\ (n > L - 1 => pc = "raised" /\ err = "ValueError")
            /\ (1 <= n /\ n <= L - 1 => Extended(L, n))

\* C9 amended: all four return the signal unchanged for n < 1; even_ext and
\* odd_ext fail with ValueError for n > L - 1 and extend for 1 <= n <= L - 1;
\* const_ext and zero_ext never fail and extend for every n >= 1.
C9_OnlyReflectionsRejectLongExtension ==
    (fn \in ExtFns /\ pc \in {"done", "raised"}) =>
        LET L == Len(x.data)
            n == a.n
        IN  /\ (n < 1 => pc = "done" /\ out = x)
            /\ (fn \in {"even_ext", "odd_ext"} /\ n > L - 1 =>
                    pc = "raised" /\ err = "ValueError")
            /\ (fn \in {"even_ext", "odd_ext"} /\ 1 <= n /\ n <= L - 1 => Extended(L, n))
            /\ (fn \in {"const_ext", "zero_ext"} /\ 1 <= n => Extended(L, n))

\* C9 witness: a constant extension longer than the signal.
C9_Witness ==
    /\ fn = "const_ext" /\ pc = "done" /\ a.n > Len(x.data) - 1
    /\ Len(x.data) >= 2 /\ Extended(Len(x.data), a.n)

====
